---- MODULE Spec2Model ----
(***************************************************************************)
(* Actuator-parameter derivation and joint binding of the BXI ELF3 robot:  *)
(* mjlab/asset_zoo/robots/bxi_elf3/elf3_constants.py and the velocity task *)
(* configuration mjlab/tasks/velocity/config/elf3.                         *)
(*                                                                         *)
(* Strings are sequences of one-character strings, so that a joint name    *)
(* and a regular expression are matched character by character.  The       *)
(* regular-expression element ".*" is the single token ".*".               *)
(*                                                                         *)
(* Numbers are exact monomials q * A50^a50 * A70^a70 * A85^a85 * w^w with  *)
(* q = n/d a rational in lowest terms; A50, A70, A85 stand for the three   *)
(* reflected inertias (computed by a function that is not part of these    *)
(* sources) and w for NATURAL_FREQ.  All four symbols are positive, so the *)
(* sign of a number is the sign of n.                                      *)
(***************************************************************************)
EXTENDS Integers, Sequences, FiniteSets, TLC

Range(s) == {s[i] : i \in DOMAIN s}

(* ------------------------------ numbers -------------------------------- *)

Abs(x) == IF x < 0 THEN -x ELSE x

RECURSIVE Gcd(_, _)
Gcd(a, b) == IF b = 0 THEN a ELSE Gcd(b, a % b)

Norm(x) ==
  LET g == Gcd(Abs(x.n), x.d)
  IN  [x EXCEPT !.n = x.n \div g, !.d = x.d \div g]

Q(n, d) == Norm([n |-> n, d |-> d, a50 |-> 0, a70 |-> 0, a85 |-> 0, w |-> 0])

Mul(x, y) ==
  Norm([n |-> x.n * y.n, d |-> x.d * y.d,
        a50 |-> x.a50 + y.a50, a70 |-> x.a70 + y.a70,
        a85 |-> x.a85 + y.a85, w |-> x.w + y.w])

\* x / y for y # 0
Div(x, y) ==
  Norm([n |-> IF y.n < 0 THEN -(x.n * y.d) ELSE x.n * y.d,
        d |-> x.d * Abs(y.n),
        a50 |-> x.a50 - y.a50, a70 |-> x.a70 - y.a70,
        a85 |-> x.a85 - y.a85, w |-> x.w - y.w])

IsZero(x) == x.n = 0
IsPositive(x) == x.n > 0

RECURSIVE Pow(_, _)
Pow(b, e) == IF e <= 0 THEN 1 ELSE b * Pow(b, e - 1)

\* The value of monomial x when A50, A70, A85 and w take the positive
\* integer values v.a50, v.a70, v.a85 and v.w: a rational.
Value(x, v) ==
  Q(x.n * Pow(v.a50, x.a50) * Pow(v.a70, x.a70) * Pow(v.a85, x.a85)
        * Pow(v.w, x.w),
    x.d * Pow(v.a50, -x.a50) * Pow(v.a70, -x.a70) * Pow(v.a85, -x.a85)
        * Pow(v.w, -x.w))

\* x < y for rationals
Less(x, y) == x.n * y.d < y.n * x.d

(* ------------------------------ strings -------------------------------- *)

U == <<"_">>
DotStar == <<".*">>
w_joint == <<"j", "o", "i", "n", "t">>
w_waist == <<"w", "a", "i", "s", "t">>
w_hip == <<"h", "i", "p">>
w_knee == <<"k", "n", "e", "e">>
w_ankle == <<"a", "n", "k", "l", "e">>
w_shoulder == <<"s", "h", "o", "u", "l", "d", "e", "r">>
w_elbow == <<"e", "l", "b", "o", "w">>
w_wrist == <<"w", "r", "i", "s", "t">>
w_l == <<"l">>
w_r == <<"r">>
w_x == <<"x">>
w_y == <<"y">>
w_z == <<"z">>

\* "<part>_<axis>_joint"
PartName(part, axis) == part \o U \o axis \o U \o w_joint
\* "<side>_<part>_<axis>_joint"
SideName(side, part, axis) == side \o U \o PartName(part, axis)
\* ".*_<part>_<axis>_joint"
AnySide(part, axis) == DotStar \o U \o PartName(part, axis)

\* Full-string anchored match of regular expression p against string s:
\* ".*" matches any run of characters, any other token matches itself.
RECURSIVE Matches(_, _)
Matches(p, s) ==
  IF p = <<>> THEN s = <<>>
  ELSE IF Head(p) = ".*"
       THEN Matches(Tail(p), s) \/ (s # <<>> /\ Matches(p, Tail(s)))
       ELSE s # <<>> /\ Head(s) = Head(p) /\ Matches(Tail(p), Tail(s))

(* --------------------------- actuator config --------------------------- *)

\* The reflected inertias are results of
\* reflected_inertia_from_two_stage_planetary: positive quantities, kept
\* symbolic.
ARMATURE_BXI50 == [Q(1, 1) EXCEPT !.a50 = 1]
ARMATURE_BXI70 == [Q(1, 1) EXCEPT !.a70 = 1]
ARMATURE_BXI85 == [Q(1, 1) EXCEPT !.a85 = 1]

ElectricActuator(reflected_inertia, velocity_limit, effort_limit) ==
  [reflected_inertia |-> reflected_inertia,
   velocity_limit |-> velocity_limit,
   effort_limit |-> effort_limit]

ACTUATOR_BXI50 == ElectricActuator(ARMATURE_BXI50, Q(20, 1), Q(21, 1))
ACTUATOR_BXI70 == ElectricActuator(ARMATURE_BXI70, Q(20, 1), Q(45, 1))
ACTUATOR_BXI85 == ElectricActuator(ARMATURE_BXI85, Q(20, 1), Q(150, 1))

NATURAL_FREQ == [Q(1, 1) EXCEPT !.w = 1]
DAMPING_RATIO == Q(2, 1)

STIFFNESS_BXI50 == Mul(ARMATURE_BXI50, Mul(NATURAL_FREQ, NATURAL_FREQ))
\* ARMATURE_BXI50 * NATURAL_FREQ**2
STIFFNESS_BXI70_From50 == Mul(ARMATURE_BXI50, Mul(NATURAL_FREQ, NATURAL_FREQ))
STIFFNESS_BXI70 == Mul(ARMATURE_BXI70, Mul(NATURAL_FREQ, NATURAL_FREQ))
STIFFNESS_BXI85 == Mul(ARMATURE_BXI85, Mul(NATURAL_FREQ, NATURAL_FREQ))

DAMPING_BXI50 == Mul(Mul(Mul(Q(2, 1), DAMPING_RATIO), ARMATURE_BXI50), NATURAL_FREQ)
DAMPING_BXI70 == Mul(Mul(Mul(Q(2, 1), DAMPING_RATIO), ARMATURE_BXI70), NATURAL_FREQ)
DAMPING_BXI85 == Mul(Mul(Mul(Q(2, 1), DAMPING_RATIO), ARMATURE_BXI85), NATURAL_FREQ)

\* Python's None is <<>>; a value v that may be None is <<v>>.
None == <<>>
Some(v) == <<v>>

BuiltinPositionActuatorCfg(target_names_expr, stiffness, damping, effort_limit, armature) ==
  [target_names_expr |-> target_names_expr,
   stiffness |-> stiffness,
   damping |-> damping,
   effort_limit |-> effort_limit,
   armature |-> armature]

ELF3_ACTUATOR_BXI50 ==
  BuiltinPositionActuatorCfg(
    << AnySide(w_shoulder, w_z), AnySide(w_wrist, w_x),
       AnySide(w_wrist, w_y), AnySide(w_wrist, w_z) >>,
    STIFFNESS_BXI50, DAMPING_BXI50,
    Some(ACTUATOR_BXI50.effort_limit), ACTUATOR_BXI50.reflected_inertia)

ELF3_ACTUATOR_BXI70 ==
  BuiltinPositionActuatorCfg(
    << AnySide(w_hip, w_z), AnySide(w_shoulder, w_y),
       AnySide(w_shoulder, w_x), AnySide(w_elbow, w_y) >>,
    STIFFNESS_BXI70, DAMPING_BXI70,
    Some(ACTUATOR_BXI70.effort_limit), ACTUATOR_BXI70.reflected_inertia)

ELF3_ACTUATOR_BXI85 ==
  BuiltinPositionActuatorCfg(
    << PartName(w_waist, w_z), AnySide(w_hip, w_y),
       AnySide(w_hip, w_x), AnySide(w_knee, w_y) >>,
    STIFFNESS_BXI85, DAMPING_BXI85,
    Some(ACTUATOR_BXI85.effort_limit), ACTUATOR_BXI85.reflected_inertia)

ELF3_ACTUATOR_WAIST_Y ==
  BuiltinPositionActuatorCfg(
    << PartName(w_waist, w_y) >>,
    Mul(STIFFNESS_BXI70, Q(2, 1)), Mul(DAMPING_BXI70, Q(2, 1)),
    Some(Q(90, 1)), Mul(ACTUATOR_BXI70.reflected_inertia, Q(2, 1)))

\* damping=DAMPING_BXI70 * 2
ELF3_ACTUATOR_WAIST_X_Damping2 ==
  BuiltinPositionActuatorCfg(
    << PartName(w_waist, w_x) >>,
    Mul(STIFFNESS_BXI70, Q(3, 1)), Mul(DAMPING_BXI70, Q(2, 1)),
    Some(Q(100, 1)), Mul(ACTUATOR_BXI70.reflected_inertia, Q(3, 1)))

ELF3_ACTUATOR_WAIST_X ==
  BuiltinPositionActuatorCfg(
    << PartName(w_waist, w_x) >>,
    Mul(STIFFNESS_BXI70, Q(3, 1)), Mul(DAMPING_BXI70, Q(3, 1)),
    Some(Q(100, 1)), Mul(ACTUATOR_BXI70.reflected_inertia, Q(3, 1)))

ELF3_ACTUATOR_ANKLE_Y ==
  BuiltinPositionActuatorCfg(
    << AnySide(w_ankle, w_y) >>,
    Mul(STIFFNESS_BXI50, Q(2, 1)), Mul(DAMPING_BXI50, Q(2, 1)),
    Some(Q(40, 1)), Mul(ACTUATOR_BXI50.reflected_inertia, Q(2, 1)))

ELF3_ACTUATOR_ANKLE_X ==
  BuiltinPositionActuatorCfg(
    << AnySide(w_ankle, w_x) >>,
    Q(10, 1), Q(1, 1),
    Some(Q(15, 1)), Mul(ACTUATOR_BXI50.reflected_inertia, Q(13, 10)))

\* The mechanism's canonical joint list.
joint_name_idx ==
  << PartName(w_waist, w_y),
     PartName(w_waist, w_x),
     PartName(w_waist, w_z),
     SideName(w_l, w_hip, w_y),
     SideName(w_l, w_hip, w_x),
     SideName(w_l, w_hip, w_z),
     SideName(w_l, w_knee, w_y),
     SideName(w_l, w_ankle, w_y),
     SideName(w_l, w_ankle, w_x),
     SideName(w_r, w_hip, w_y),
     SideName(w_r, w_hip, w_x),
     SideName(w_r, w_hip, w_z),
     SideName(w_r, w_knee, w_y),
     SideName(w_r, w_ankle, w_y),
     SideName(w_r, w_ankle, w_x),
     SideName(w_l, w_shoulder, w_y),
     SideName(w_l, w_shoulder, w_x),
     SideName(w_l, w_shoulder, w_z),
     SideName(w_l, w_elbow, w_y),
     SideName(w_l, w_wrist, w_x),
     SideName(w_l, w_wrist, w_y),
     SideName(w_l, w_wrist, w_z),
     SideName(w_r, w_shoulder, w_y),
     SideName(w_r, w_shoulder, w_x),
     SideName(w_r, w_shoulder, w_z),
     SideName(w_r, w_elbow, w_y),
     SideName(w_r, w_wrist, w_x),
     SideName(w_r, w_wrist, w_y),
     SideName(w_r, w_wrist, w_z) >>

(* ------------------------ one binding per joint ------------------------ *)

waist_y_joint ==
  BuiltinPositionActuatorCfg(<<PartName(w_waist, w_y)>>,
    ELF3_ACTUATOR_WAIST_Y.stiffness, ELF3_ACTUATOR_WAIST_Y.damping,
    ELF3_ACTUATOR_WAIST_Y.effort_limit, ELF3_ACTUATOR_WAIST_Y.armature)

waist_x_joint ==
  BuiltinPositionActuatorCfg(<<PartName(w_waist, w_x)>>,
    ELF3_ACTUATOR_WAIST_X.stiffness, ELF3_ACTUATOR_WAIST_X.damping,
    ELF3_ACTUATOR_WAIST_X.effort_limit, ELF3_ACTUATOR_WAIST_X.armature)

waist_z_joint ==
  BuiltinPositionActuatorCfg(<<PartName(w_waist, w_z)>>,
    ELF3_ACTUATOR_BXI85.stiffness, ELF3_ACTUATOR_BXI85.damping,
    ELF3_ACTUATOR_BXI85.effort_limit, ELF3_ACTUATOR_BXI85.armature)

l_hip_y_joint ==
  BuiltinPositionActuatorCfg(<<SideName(w_l, w_hip, w_y)>>,
    ELF3_ACTUATOR_BXI85.stiffness, ELF3_ACTUATOR_BXI85.damping,
    ELF3_ACTUATOR_BXI85.effort_limit, ELF3_ACTUATOR_BXI85.armature)

l_hip_x_joint ==
  BuiltinPositionActuatorCfg(<<SideName(w_l, w_hip, w_x)>>,
    ELF3_ACTUATOR_BXI85.stiffness, ELF3_ACTUATOR_BXI85.damping,
    ELF3_ACTUATOR_BXI85.effort_limit, ELF3_ACTUATOR_BXI85.armature)

\* stiffness=ELF3_ACTUATOR_BXI85.stiffness, ..., as the other two hip joints
l_hip_z_joint_From85 ==
  BuiltinPositionActuatorCfg(<<SideName(w_l, w_hip, w_z)>>,
    ELF3_ACTUATOR_BXI85.stiffness, ELF3_ACTUATOR_BXI85.damping,
    ELF3_ACTUATOR_BXI85.effort_limit, ELF3_ACTUATOR_BXI85.armature)

l_hip_z_joint ==
  BuiltinPositionActuatorCfg(<<SideName(w_l, w_hip, w_z)>>,
    ELF3_ACTUATOR_BXI70.stiffness, ELF3_ACTUATOR_BXI70.damping,
    ELF3_ACTUATOR_BXI70.effort_limit, ELF3_ACTUATOR_BXI70.armature)

l_knee_y_joint ==
  BuiltinPositionActuatorCfg(<<SideName(w_l, w_knee, w_y)>>,
    ELF3_ACTUATOR_BXI85.stiffness, ELF3_ACTUATOR_BXI85.damping,
    ELF3_ACTUATOR_BXI85.effort_limit, ELF3_ACTUATOR_BXI85.armature)

l_ankle_y_joint ==
  BuiltinPositionActuatorCfg(<<SideName(w_l, w_ankle, w_y)>>,
    ELF3_ACTUATOR_ANKLE_Y.stiffness, ELF3_ACTUATOR_ANKLE_Y.damping,
    ELF3_ACTUATOR_ANKLE_Y.effort_limit, ELF3_ACTUATOR_ANKLE_Y.armature)

l_ankle_x_joint ==
  BuiltinPositionActuatorCfg(<<SideName(w_l, w_ankle, w_x)>>,
    ELF3_ACTUATOR_ANKLE_X.stiffness, ELF3_ACTUATOR_ANKLE_X.damping,
    ELF3_ACTUATOR_ANKLE_X.effort_limit, ELF3_ACTUATOR_ANKLE_X.armature)

r_hip_y_joint ==
  BuiltinPositionActuatorCfg(<<SideName(w_r, w_hip, w_y)>>,
    ELF3_ACTUATOR_BXI85.stiffness, ELF3_ACTUATOR_BXI85.damping,
    ELF3_ACTUATOR_BXI85.effort_limit, ELF3_ACTUATOR_BXI85.armature)

r_hip_x_joint ==
  BuiltinPositionActuatorCfg(<<SideName(w_r, w_hip, w_x)>>,
    ELF3_ACTUATOR_BXI85.stiffness, ELF3_ACTUATOR_BXI85.damping,
    ELF3_ACTUATOR_BXI85.effort_limit, ELF3_ACTUATOR_BXI85.armature)

r_hip_z_joint ==
  BuiltinPositionActuatorCfg(<<SideName(w_r, w_hip, w_z)>>,
    ELF3_ACTUATOR_BXI70.stiffness, ELF3_ACTUATOR_BXI70.damping,
    ELF3_ACTUATOR_BXI70.effort_limit, ELF3_ACTUATOR_BXI70.armature)

r_knee_y_joint ==
  BuiltinPositionActuatorCfg(<<SideName(w_r, w_knee, w_y)>>,
    ELF3_ACTUATOR_BXI85.stiffness, ELF3_ACTUATOR_BXI85.damping,
    ELF3_ACTUATOR_BXI85.effort_limit, ELF3_ACTUATOR_BXI85.armature)

r_ankle_y_joint ==
  BuiltinPositionActuatorCfg(<<SideName(w_r, w_ankle, w_y)>>,
    ELF3_ACTUATOR_ANKLE_Y.stiffness, ELF3_ACTUATOR_ANKLE_Y.damping,
    ELF3_ACTUATOR_ANKLE_Y.effort_limit, ELF3_ACTUATOR_ANKLE_Y.armature)

r_ankle_x_joint ==
  BuiltinPositionActuatorCfg(<<SideName(w_r, w_ankle, w_x)>>,
    ELF3_ACTUATOR_ANKLE_X.stiffness, ELF3_ACTUATOR_ANKLE_X.damping,
    ELF3_ACTUATOR_ANKLE_X.effort_limit, ELF3_ACTUATOR_ANKLE_X.armature)

l_shoulder_y_joint ==
  BuiltinPositionActuatorCfg(<<SideName(w_l, w_shoulder, w_y)>>,
    ELF3_ACTUATOR_BXI70.stiffness, ELF3_ACTUATOR_BXI70.damping,
    ELF3_ACTUATOR_BXI70.effort_limit, ELF3_ACTUATOR_BXI70.armature)

l_shoulder_x_joint ==
  BuiltinPositionActuatorCfg(<<SideName(w_l, w_shoulder, w_x)>>,
    ELF3_ACTUATOR_BXI70.stiffness, ELF3_ACTUATOR_BXI70.damping,
    ELF3_ACTUATOR_BXI70.effort_limit, ELF3_ACTUATOR_BXI70.armature)

l_shoulder_z_joint ==
  BuiltinPositionActuatorCfg(<<SideName(w_l, w_shoulder, w_z)>>,
    ELF3_ACTUATOR_BXI50.stiffness, ELF3_ACTUATOR_BXI50.damping,
    ELF3_ACTUATOR_BXI50.effort_limit, ELF3_ACTUATOR_BXI50.armature)

l_elbow_y_joint ==
  BuiltinPositionActuatorCfg(<<SideName(w_l, w_elbow, w_y)>>,
    ELF3_ACTUATOR_BXI70.stiffness, ELF3_ACTUATOR_BXI70.damping,
    ELF3_ACTUATOR_BXI70.effort_limit, ELF3_ACTUATOR_BXI70.armature)

l_wrist_x_joint ==
  BuiltinPositionActuatorCfg(<<SideName(w_l, w_wrist, w_x)>>,
    ELF3_ACTUATOR_BXI50.stiffness, ELF3_ACTUATOR_BXI50.damping,
    ELF3_ACTUATOR_BXI50.effort_limit, ELF3_ACTUATOR_BXI50.armature)

l_wrist_y_joint ==
  BuiltinPositionActuatorCfg(<<SideName(w_l, w_wrist, w_y)>>,
    ELF3_ACTUATOR_BXI50.stiffness, ELF3_ACTUATOR_BXI50.damping,
    ELF3_ACTUATOR_BXI50.effort_limit, ELF3_ACTUATOR_BXI50.armature)

l_wrist_z_joint ==
  BuiltinPositionActuatorCfg(<<SideName(w_l, w_wrist, w_z)>>,
    ELF3_ACTUATOR_BXI50.stiffness, ELF3_ACTUATOR_BXI50.damping,
    ELF3_ACTUATOR_BXI50.effort_limit, ELF3_ACTUATOR_BXI50.armature)

r_shoulder_y_joint ==
  BuiltinPositionActuatorCfg(<<SideName(w_r, w_shoulder, w_y)>>,
    ELF3_ACTUATOR_BXI70.stiffness, ELF3_ACTUATOR_BXI70.damping,
    ELF3_ACTUATOR_BXI70.effort_limit, ELF3_ACTUATOR_BXI70.armature)

r_shoulder_x_joint ==
  BuiltinPositionActuatorCfg(<<SideName(w_r, w_shoulder, w_x)>>,
    ELF3_ACTUATOR_BXI70.stiffness, ELF3_ACTUATOR_BXI70.damping,
    ELF3_ACTUATOR_BXI70.effort_limit, ELF3_ACTUATOR_BXI70.armature)

r_shoulder_z_joint ==
  BuiltinPositionActuatorCfg(<<SideName(w_r, w_shoulder, w_z)>>,
    ELF3_ACTUATOR_BXI50.stiffness, ELF3_ACTUATOR_BXI50.damping,
    ELF3_ACTUATOR_BXI50.effort_limit, ELF3_ACTUATOR_BXI50.armature)

r_elbow_y_joint ==
  BuiltinPositionActuatorCfg(<<SideName(w_r, w_elbow, w_y)>>,
    ELF3_ACTUATOR_BXI70.stiffness, ELF3_ACTUATOR_BXI70.damping,
    ELF3_ACTUATOR_BXI70.effort_limit, ELF3_ACTUATOR_BXI70.armature)

r_wrist_x_joint ==
  BuiltinPositionActuatorCfg(<<SideName(w_r, w_wrist, w_x)>>,
    ELF3_ACTUATOR_BXI50.stiffness, ELF3_ACTUATOR_BXI50.damping,
    ELF3_ACTUATOR_BXI50.effort_limit, ELF3_ACTUATOR_BXI50.armature)

r_wrist_y_joint ==
  BuiltinPositionActuatorCfg(<<SideName(w_r, w_wrist, w_y)>>,
    ELF3_ACTUATOR_BXI50.stiffness, ELF3_ACTUATOR_BXI50.damping,
    ELF3_ACTUATOR_BXI50.effort_limit, ELF3_ACTUATOR_BXI50.armature)

\* A copy of the binding above it that still targets r_wrist_y_joint.
r_wrist_z_joint_CopyPaste ==
  BuiltinPositionActuatorCfg(<<SideName(w_r, w_wrist, w_y)>>,
    ELF3_ACTUATOR_BXI50.stiffness, ELF3_ACTUATOR_BXI50.damping,
    ELF3_ACTUATOR_BXI50.effort_limit, ELF3_ACTUATOR_BXI50.armature)

r_wrist_z_joint ==
  BuiltinPositionActuatorCfg(<<SideName(w_r, w_wrist, w_z)>>,
    ELF3_ACTUATOR_BXI50.stiffness, ELF3_ACTUATOR_BXI50.damping,
    ELF3_ACTUATOR_BXI50.effort_limit, ELF3_ACTUATOR_BXI50.armature)

EntityArticulationInfoCfg(actuators, soft_joint_pos_limit_factor) ==
  [actuators |-> actuators,
   soft_joint_pos_limit_factor |-> soft_joint_pos_limit_factor]

\* The pattern-group binding list, which the module keeps as a comment.
ELF3_ARTICULATION ==
  EntityArticulationInfoCfg(
  << ELF3_ACTUATOR_BXI50,
     ELF3_ACTUATOR_BXI70,
     ELF3_ACTUATOR_BXI85,
     ELF3_ACTUATOR_WAIST_Y,
     ELF3_ACTUATOR_WAIST_X,
     ELF3_ACTUATOR_ANKLE_Y,
     ELF3_ACTUATOR_ANKLE_X >>,
  Q(9, 10))

\* The same bindings with l_hip_y_joint and l_hip_x_joint out of order.
ELF3_ARTICULATION_NEW_Swapped ==
  EntityArticulationInfoCfg(
  << waist_y_joint,
     waist_x_joint,
     waist_z_joint,
     l_hip_x_joint,
     l_hip_y_joint,
     l_hip_z_joint,
     l_knee_y_joint,
     l_ankle_y_joint,
     l_ankle_x_joint,
     r_hip_y_joint,
     r_hip_x_joint,
     r_hip_z_joint,
     r_knee_y_joint,
     r_ankle_y_joint,
     r_ankle_x_joint,
     l_shoulder_y_joint,
     l_shoulder_x_joint,
     l_shoulder_z_joint,
     l_elbow_y_joint,
     l_wrist_x_joint,
     l_wrist_y_joint,
     l_wrist_z_joint,
     r_shoulder_y_joint,
     r_shoulder_x_joint,
     r_shoulder_z_joint,
     r_elbow_y_joint,
     r_wrist_x_joint,
     r_wrist_y_joint,
     r_wrist_z_joint >>,
  Q(9, 10))

ELF3_ARTICULATION_NEW ==
  EntityArticulationInfoCfg(
  << waist_y_joint,
     waist_x_joint,
     waist_z_joint,
     l_hip_y_joint,
     l_hip_x_joint,
     l_hip_z_joint,
     l_knee_y_joint,
     l_ankle_y_joint,
     l_ankle_x_joint,
     r_hip_y_joint,
     r_hip_x_joint,
     r_hip_z_joint,
     r_knee_y_joint,
     r_ankle_y_joint,
     r_ankle_x_joint,
     l_shoulder_y_joint,
     l_shoulder_x_joint,
     l_shoulder_z_joint,
     l_elbow_y_joint,
     l_wrist_x_joint,
     l_wrist_y_joint,
     l_wrist_z_joint,
     r_shoulder_y_joint,
     r_shoulder_x_joint,
     r_shoulder_z_joint,
     r_elbow_y_joint,
     r_wrist_x_joint,
     r_wrist_y_joint,
     r_wrist_z_joint >>,
  Q(9, 10))

(* ------------------------------- inputs -------------------------------- *)

MaxBindings == 2
MaxCfgs == 2
MaxMutations == 2
MaxArmature == 6
MaxFreq == 4
MaxMultiplier == 4

\* Numeric values for the three reflected inertias and for NATURAL_FREQ,
\* all positive.
Valuations ==
  [a50 : 1..MaxArmature, a70 : 1..MaxArmature, a85 : 1..MaxArmature,
   w : 1..MaxFreq]

\* A small mechanism, for binding lists other than the module's own.
SmallJoints ==
  << SideName(w_l, w_wrist, w_x), SideName(w_r, w_wrist, w_x),
     PartName(w_waist, w_z) >>

TargetPool ==
  { << SideName(w_l, w_wrist, w_x) >>,
    << AnySide(w_wrist, w_x) >>,
    << AnySide(w_wrist, w_x), AnySide(w_wrist, w_y) >>,
    << PartName(w_waist, w_z), AnySide(w_wrist, w_x) >> }

Params(a) ==
  [stiffness |-> a.stiffness, damping |-> a.damping,
   effort_limit |-> a.effort_limit, armature |-> a.armature]

\* Parameter bundles: two of the module's own, and the hand-set bundle of
\* ELF3_ACTUATOR_ANKLE_X with a negative stiffness, a zero stiffness and no
\* effort limit.
ParamPool ==
  { Params(ELF3_ACTUATOR_ANKLE_X),
    Params(ELF3_ACTUATOR_BXI50),
    [Params(ELF3_ACTUATOR_ANKLE_X) EXCEPT !.stiffness = Q(-10, 1)],
    [Params(ELF3_ACTUATOR_ANKLE_X) EXCEPT !.stiffness = Q(0, 1)],
    [Params(ELF3_ACTUATOR_ANKLE_X) EXCEPT !.effort_limit = None] }

BindingPool ==
  { BuiltinPositionActuatorCfg(t, q.stiffness, q.damping, q.effort_limit,
                               q.armature) : t \in TargetPool, q \in ParamPool }

BindingLists == UNION { [1..n -> BindingPool] : n \in 0..MaxBindings }

ELF3Scenario ==
  [joints |-> joint_name_idx, actuators |-> ELF3_ARTICULATION_NEW.actuators]

ELF3GroupScenario ==
  [joints |-> joint_name_idx, actuators |-> ELF3_ARTICULATION.actuators]

Scenarios ==
  {ELF3Scenario, ELF3GroupScenario}
    \cup { [joints |-> SmallJoints, actuators |-> bs] : bs \in BindingLists }

(* ---------------------------- Python dict ------------------------------ *)

\* A dict is the sequence of its items in insertion order.
DictKeys(d) == [i \in DOMAIN d |-> d[i].key]
DictHas(d, k) == \E i \in DOMAIN d : d[i].key = k
DictGet(d, k) == d[CHOOSE i \in DOMAIN d : d[i].key = k].value
\* d[k] = v: an existing key keeps its place, a new key is appended.
DictSet(d, k, v) ==
  IF DictHas(d, k)
  THEN [i \in DOMAIN d |-> IF d[i].key = k THEN [key |-> k, value |-> v]
                                           ELSE d[i]]
  ELSE Append(d, [key |-> k, value |-> v])

(* --------------------------- ELF3_ACTION_SCALE ------------------------- *)

\* 0.5 * e / s
ScaleOf_HalfK(e, s) == Div(Mul(Q(1, 2), e), s)

\* 0.25 * e / s
ScaleOf(e, s) == Div(Mul(Q(1, 4), e), s)

\* for n in names: ELF3_ACTION_SCALE[n] = 0.25 * e / s
RECURSIVE WriteNames(_, _, _)
WriteNames(d, names, v) ==
  IF names = <<>> THEN d
  ELSE WriteNames(DictSet(d, Head(names), v), Tail(names), v)

\* for a in ELF3_ARTICULATION_NEW.actuators: ...  The loop ends early with
\* AssertionError (e is None) or ZeroDivisionError (s == 0), leaving the
\* items written so far.
RECURSIVE ActionScaleLoop(_, _)
ActionScaleLoop(d, acts) ==
  IF acts = <<>> THEN [scale |-> d, error |-> "none"]
  ELSE LET a == Head(acts)
       IN  IF a.effort_limit = None
           THEN [scale |-> d, error |-> "AssertionError"]
           ELSE IF a.target_names_expr # <<>> /\ IsZero(a.stiffness)
           THEN [scale |-> d, error |-> "ZeroDivisionError"]
           ELSE LET d2 == WriteNames(d, a.target_names_expr,
                                     ScaleOf(a.effort_limit[1], a.stiffness))
                IN  \* d2 is evaluated here, before the next iteration (a
                    \* dict never loses an item)
                    IF Len(d2) >= Len(d)
                    THEN ActionScaleLoop(d2, Tail(acts))
                    ELSE [scale |-> d2, error |-> "none"]

(* ------------------- binding match and joint resolution ---------------- *)

\* The joints a pattern matches.
MatchedBy(p, joint_names) ==
  {joint_names[i] : i \in {i \in DOMAIN joint_names : Matches(p, joint_names[i])}}

\* Reports patterns only when none of the binding's patterns matches.
UnmatchedPatterns_AllOnly(b, joint_names) ==
  IF \A p \in Range(b.target_names_expr) : MatchedBy(p, joint_names) = {}
  THEN Range(b.target_names_expr)
  ELSE {}

UnmatchedPatterns(b, joint_names) ==
  {p \in Range(b.target_names_expr) : MatchedBy(p, joint_names) = {}}

\* ActuatorBinding.match
Match(b, joint_names) ==
  IF UnmatchedPatterns(b, joint_names) # {}
  THEN [error |-> "UnmatchedPattern", matched |-> {},
        patterns |-> UnmatchedPatterns(b, joint_names)]
  ELSE [error |-> "none",
        matched |-> UNION {MatchedBy(p, joint_names) :
                             p \in Range(b.target_names_expr)},
        patterns |-> {}]

EmptyTable(joint_names) ==
  [i \in DOMAIN joint_names |-> [key |-> joint_names[i], entry |-> None]]

\* Names only the first joint left unwritten.
Unwritten_FirstOnly(tbl) ==
  LET un == {i \in DOMAIN tbl : tbl[i].entry = None}
  IN  IF un = {} THEN {}
      ELSE {tbl[CHOOSE i \in un : \A k \in un : i <= k].key}

Unwritten(tbl) == {tbl[i].key : i \in {i \in DOMAIN tbl : tbl[i].entry = None}}

\* JointResolutionTable.resolve, steps 2 and 3.
RECURSIVE ResolveFrom(_, _, _)
ResolveFrom(tbl, joint_names, bindings) ==
  IF bindings = <<>>
  THEN IF Unwritten(tbl) # {}
       THEN [error |-> "UnresolvedJoint", table |-> <<>>,
             names |-> Unwritten(tbl)]
       ELSE [error |-> "none", table |-> tbl, names |-> {}]
  ELSE LET b == Head(bindings)
           m == Match(b, joint_names)
       IN  IF m.error # "none"
           THEN [error |-> m.error, table |-> <<>>, names |-> m.patterns]
           ELSE ResolveFrom(
                  [i \in DOMAIN tbl |->
                     IF tbl[i].key \in m.matched
                     THEN [key |-> tbl[i].key, entry |-> Some(Params(b))]
                     ELSE tbl[i]],
                  joint_names, Tail(bindings))

\* JointResolutionTable.resolve
Resolve(joint_names, bindings) ==
  ResolveFrom(EmptyTable(joint_names), joint_names, bindings)

(* ------------------------------- state --------------------------------- *)

VARIABLES
  joints,             \* the mechanism's ordered joint names
  actuators,          \* the articulation's binding list
  ELF3_ACTION_SCALE,  \* the module-level dict
  pc,                 \* "start", "imported", "import_error", "resolved",
                      \* "resolve_error"
  err,                \* the error raised, or "none"
  table,              \* the resolved per-joint table
  names,              \* the joints or patterns an error names
  cfgs,               \* the environment configurations handed out
  mutations,          \* writes made through handed-out configurations
  valuation,          \* numeric values of A50, A70, A85 and NATURAL_FREQ,
                      \* or <<>> where they stay symbolic
  gains               \* the synthesized gains under these values, a dict

vars == <<joints, actuators, ELF3_ACTION_SCALE, pc, err, table, names, cfgs,
          mutations, valuation, gains>>

gainVars == <<valuation, gains>>

\* The armatures and NATURAL_FREQ stay symbolic.
Symbolic == valuation = <<>> /\ gains = <<>>

InitWith(sc) ==
  /\ joints = sc.joints
  /\ actuators = sc.actuators
  /\ ELF3_ACTION_SCALE = <<>>
  /\ pc = "start"
  /\ err = "none"
  /\ table = <<>>
  /\ names = {}
  /\ cfgs = <<>>
  /\ mutations = 0

Init == \E sc \in Scenarios : InitWith(sc) /\ Symbolic

\* Importing elf3_constants runs the module-level loop.
Import ==
  /\ pc = "start"
  /\ LET r == ActionScaleLoop(<<>>, actuators)
     IN  /\ ELF3_ACTION_SCALE' = r.scale
         /\ err' = r.error
         /\ pc' = IF r.error = "none" THEN "imported" ELSE "import_error"
  /\ UNCHANGED <<joints, actuators, table, names, cfgs, mutations>>
  /\ UNCHANGED gainVars

\* Building the entity resolves the articulation's bindings against the
\* mechanism's joints.
BuildEntity ==
  /\ pc = "imported"
  /\ LET r == Resolve(joints, actuators)
     IN  /\ table' = r.table
         /\ err' = r.error
         /\ names' = r.names
         /\ pc' = IF r.error = "none" THEN "resolved" ELSE "resolve_error"
  /\ UNCHANGED <<joints, actuators, ELF3_ACTION_SCALE, cfgs, mutations>>
  /\ UNCHANGED gainVars

Next == Import \/ BuildEntity

Spec == Init /\ [][Next]_vars

(* ---------------------- environment configurations --------------------- *)

\* get_elf3_robot_cfg: a new EntityCfg (identity id) whose fields refer to
\* the module-level objects named.
get_elf3_robot_cfg(id) ==
  [id |-> id,
   init_state |-> "KNEES_BENT_KEYFRAME",
   collisions |-> <<"FULL_COLLISION">>,
   spec_fn |-> "get_spec",
   articulation |-> "ELF3_ARTICULATION_NEW"]

\* bxi_elf3_rough_env_cfg: the robot entity is a new EntityCfg, the
\* joint-position action's scale is the module-level dict itself.
bxi_elf3_rough_env_cfg(id, play) ==
  [task |-> "rough",
   play |-> play,
   robot |-> get_elf3_robot_cfg(id),
   scale |-> "ELF3_ACTION_SCALE"]

\* bxi_elf3_flat_env_cfg: the rough configuration, switched to flat terrain.
bxi_elf3_flat_env_cfg(id, play) ==
  [bxi_elf3_rough_env_cfg(id, play) EXCEPT !.task = "flat"]

\* The dict a configuration's joint-position action scale refers to.
ScaleSeenBy(i) ==
  IF cfgs[i].scale = "ELF3_ACTION_SCALE" THEN ELF3_ACTION_SCALE ELSE <<>>

RoughEnvCfg ==
  /\ pc = "imported"
  /\ Len(cfgs) < MaxCfgs
  /\ \E play \in BOOLEAN :
       cfgs' = Append(cfgs, bxi_elf3_rough_env_cfg(Len(cfgs) + 1, play))
  /\ UNCHANGED <<joints, actuators, ELF3_ACTION_SCALE, pc, err, table, names,
                 mutations>>
  /\ UNCHANGED gainVars

FlatEnvCfg ==
  /\ pc = "imported"
  /\ Len(cfgs) < MaxCfgs
  /\ \E play \in BOOLEAN :
       cfgs' = Append(cfgs, bxi_elf3_flat_env_cfg(Len(cfgs) + 1, play))
  /\ UNCHANGED <<joints, actuators, ELF3_ACTION_SCALE, pc, err, table, names,
                 mutations>>
  /\ UNCHANGED gainVars

\* The joints whose scale a user of a configuration halves.
MutatedKeys == {SideName(w_l, w_ankle, w_x), SideName(w_r, w_ankle, w_x)}

\* cfgs[i].actions["joint_pos"].scale[k] /= 2: a write to the dict the
\* configuration refers to.
MutateScale(i, k) ==
  /\ i \in DOMAIN cfgs
  /\ mutations < MaxMutations
  /\ cfgs[i].scale = "ELF3_ACTION_SCALE"
  /\ DictHas(ELF3_ACTION_SCALE, k)
  /\ ELF3_ACTION_SCALE' =
       DictSet(ELF3_ACTION_SCALE, k, Div(DictGet(ELF3_ACTION_SCALE, k), Q(2, 1)))
  /\ mutations' = mutations + 1
  /\ UNCHANGED <<joints, actuators, pc, err, table, names, cfgs>>
  /\ UNCHANGED gainVars

Mutate == \E i \in DOMAIN cfgs : \E k \in MutatedKeys : MutateScale(i, k)

InitCfg == InitWith(ELF3Scenario) /\ Symbolic

NextCfg == Import \/ RoughEnvCfg \/ FlatEnvCfg \/ Mutate

SpecCfg == InitCfg /\ [][NextCfg]_vars

(* ---------------------------- gain synthesis --------------------------- *)

\* The module-level names the gain synthesis binds, in order.
GainNames ==
  << "STIFFNESS_BXI50", "STIFFNESS_BXI70", "STIFFNESS_BXI85",
     "DAMPING_BXI50", "DAMPING_BXI70", "DAMPING_BXI85" >>

GainExpr(name) ==
  CASE name = "STIFFNESS_BXI50" -> STIFFNESS_BXI50
    [] name = "STIFFNESS_BXI70" -> STIFFNESS_BXI70
    [] name = "STIFFNESS_BXI85" -> STIFFNESS_BXI85
    [] name = "DAMPING_BXI50" -> DAMPING_BXI50
    [] name = "DAMPING_BXI70" -> DAMPING_BXI70
    [] name = "DAMPING_BXI85" -> DAMPING_BXI85

\* STIFFNESS_* = ARMATURE_* * NATURAL_FREQ**2, then
\* DAMPING_* = 2.0 * DAMPING_RATIO * ARMATURE_* * NATURAL_FREQ, computed for
\* the values the armatures and NATURAL_FREQ have.
SynthesizeGains ==
  /\ gains = <<>>
  /\ gains' = [i \in DOMAIN GainNames |->
                 [key |-> GainNames[i],
                  value |-> Value(GainExpr(GainNames[i]), valuation)]]
  /\ UNCHANGED <<joints, actuators, ELF3_ACTION_SCALE, pc, err, table, names,
                 cfgs, mutations, valuation>>

InitGain ==
  /\ InitWith(ELF3Scenario)
  /\ valuation \in Valuations
  /\ gains = <<>>

NextGain == SynthesizeGains

SpecGain == InitGain /\ [][NextGain]_vars

(* ------------------------------- claims -------------------------------- *)

IsELF3 == joints = joint_name_idx /\ actuators = ELF3_ARTICULATION_NEW.actuators

\* The bindings of the list that match joint j, and those that name n
\* literally.
Matching(j) ==
  {k \in DOMAIN actuators :
     \E p \in Range(actuators[k].target_names_expr) : Matches(p, j)}
Naming(n) ==
  {k \in DOMAIN actuators : n \in Range(actuators[k].target_names_expr)}
Last(S) == CHOOSE x \in S : \A y \in S : y <= x

Imported == pc \in {"imported", "resolved", "resolve_error"}

\* v = 0.25 * e / s, stated without the division: 4 * v * s = e.
IsQuarterRatio(v, e, s) == Mul(Mul(Q(4, 1), v), s) = e

\* C1: after a successful resolution the table's keys are exactly the
\* mechanism's joints, each joint once and each with one parameter set; for
\* the 29 ELF3 joints the bindings of ELF3_ARTICULATION_NEW resolve, every
\* joint is matched by exactly one binding and every binding names a joint.
C1_KeySetExact ==
  /\ pc = "resolved" =>
       /\ {table[i].key : i \in DOMAIN table} = Range(joints)
       /\ \A i, k \in DOMAIN table : table[i].key = table[k].key => i = k
       /\ \A i \in DOMAIN table : Len(table[i].entry) = 1
  /\ (IsELF3 /\ pc \in {"resolved", "resolve_error"}) =>
       /\ pc = "resolved"
       /\ Len(joints) = 29
       /\ Cardinality(Range(joints)) = 29
       /\ \A j \in Range(joints) : Cardinality(Matching(j)) = 1
       /\ \A k \in DOMAIN actuators :
            Range(actuators[k].target_names_expr) \subseteq Range(joints)

C1_Witness == pc = "resolved" /\ IsELF3 /\ Len(table) = 29

\* C2 (as claimed): for every joint matched by some binding, the resolved
\* entry is the parameter set of the last binding of the list that matches
\* it, and the item ELF3_ACTION_SCALE holds under the joint's name is
\* 0.25 * e / s of that same binding.
C2_LastWriteWins ==
  (pc = "resolved" /\ \A k \in DOMAIN actuators : IsPositive(actuators[k].stiffness))
  =>
    \A i \in DOMAIN joints :
      LET b == actuators[Last(Matching(joints[i]))]
      IN  /\ table[i].entry = Some(Params(b))
          /\ DictHas(ELF3_ACTION_SCALE, joints[i]) =>
               IsQuarterRatio(DictGet(ELF3_ACTION_SCALE, joints[i]),
                              b.effort_limit[1], b.stiffness)

\* C3: when every pattern of every binding matches some joint and some
\* joint is matched by no binding, resolution fails with UnresolvedJoint
\* and names exactly the joints no binding matched.
C3_UnresolvedNamed ==
  (/\ pc \in {"resolved", "resolve_error"}
   /\ \A k \in DOMAIN actuators :
        \A p \in Range(actuators[k].target_names_expr) :
          \E j \in Range(joints) : Matches(p, j))
  => LET never == {j \in Range(joints) : Matching(j) = {}}
     IN  IF never # {}
         THEN pc = "resolve_error" /\ err = "UnresolvedJoint" /\ names = never
         ELSE pc = "resolved" /\ err = "none"

C3_Witness ==
  /\ pc = "resolve_error"
  /\ err = "UnresolvedJoint"
  /\ Len(joints) = 3
  /\ names = {PartName(w_waist, w_z)}

\* C4: when some pattern of some binding matches no joint, resolution fails
\* with UnmatchedPattern, names only patterns that match no joint, and
\* yields no table, also when the binding's other patterns do match.
C4_UnmatchedFails ==
  (/\ pc \in {"resolved", "resolve_error"}
   /\ \E k \in DOMAIN actuators :
        \E p \in Range(actuators[k].target_names_expr) :
          \A j \in Range(joints) : ~Matches(p, j))
  => /\ pc = "resolve_error"
     /\ err = "UnmatchedPattern"
     /\ names # {}
     /\ \A p \in names : \A j \in Range(joints) : ~Matches(p, j)
     /\ table = <<>>

C4_Witness ==
  /\ pc = "resolve_error"
  /\ err = "UnmatchedPattern"
  /\ names = {AnySide(w_wrist, w_y)}
  /\ \E k \in DOMAIN actuators :
       /\ AnySide(w_wrist, w_y) \in Range(actuators[k].target_names_expr)
       /\ \E p \in Range(actuators[k].target_names_expr) :
            \E j \in Range(joints) : Matches(p, j)

\* The binding list with the effort limit of binding k doubled.
EffortDoubled(k) ==
  [actuators EXCEPT ![k].effort_limit =
     Some(Mul(Q(2, 1), actuators[k].effort_limit[1]))]

ObservableScale == IF pc = "import_error" THEN <<>> ELSE ELF3_ACTION_SCALE

\* An error of the loop, read as the InvalidSpec of the claims.
IsInvalidSpec(e) == e \in {"InvalidSpec", "ZeroDivisionError", "AssertionError"}

\* C6 (as claimed): when some binding's stiffness is zero or negative, the
\* derivation of the scale table fails with InvalidSpec and the table has
\* no item.
C6_StiffnessValidated ==
  (/\ pc # "start"
   /\ \E k \in DOMAIN actuators : ~IsPositive(actuators[k].stiffness)
   /\ \A k \in DOMAIN actuators : actuators[k].effort_limit # None)
  => IsInvalidSpec(err) /\ ObservableScale = <<>>

\* C7 (as claimed): once construction has ended, either it succeeded and
\* the resolved table holds an entry for exactly the mechanism's joints, or
\* it failed with InvalidSpec, UnmatchedPattern or UnresolvedJoint and a
\* caller can read no item of either table.
C7_AllOrNothing ==
  pc \in {"import_error", "resolved", "resolve_error"} =>
    \/ /\ pc = "resolved"
       /\ err = "none"
       /\ {table[i].key : i \in DOMAIN table} = Range(joints)
       /\ \A i \in DOMAIN table : table[i].entry # None
    \/ /\ pc # "resolved"
       /\ \/ IsInvalidSpec(err)
          \/ err \in {"UnmatchedPattern", "UnresolvedJoint"}
       /\ table = <<>>
       /\ ObservableScale = <<>>

\* C8 (as claimed): a write made through one handed-out configuration
\* changes nothing that any other handed-out configuration sees.
C8_Independent ==
  [][\A i \in DOMAIN cfgs : \A k \in MutatedKeys :
       MutateScale(i, k) =>
         \A j \in DOMAIN cfgs \ {i} : ScaleSeenBy(j)' = ScaleSeenBy(j)]_vars

\* C10: for ELF3 the i-th binding of ELF3_ARTICULATION_NEW.actuators targets
\* exactly the i-th name of joint_name_idx, for i = 1..29, so the items of
\* ELF3_ACTION_SCALE and the entries of the resolved table are in the
\* canonical joint order.
C10_CanonicalOrder ==
  (IsELF3 /\ Imported) =>
    /\ Len(actuators) = 29
    /\ Len(joint_name_idx) = 29
    /\ \A i \in 1..29 :
         actuators[i].target_names_expr = <<joint_name_idx[i]>>
    /\ DictKeys(ELF3_ACTION_SCALE) = joint_name_idx
    /\ pc = "resolved" =>
         \A i \in 1..29 :
           /\ table[i].key = joint_name_idx[i]
           /\ table[i].entry = Some(Params(actuators[i]))

C10_Witness ==
  /\ IsELF3
  /\ pc = "resolved"
  /\ DictKeys(ELF3_ACTION_SCALE) = joint_name_idx
  /\ table[29].key = SideName(w_r, w_wrist, w_z)

\* C11: with stiffness = armature * w^2 and damping = 2 * zeta * armature * w
\* for one shared w > 0 and zeta = 2.0, armatures A50 < A70 < A85 give
\* STIFFNESS_BXI50 < STIFFNESS_BXI70 < STIFFNESS_BXI85 and
\* DAMPING_BXI50 < DAMPING_BXI70 < DAMPING_BXI85, and no synthesized
\* stiffness or damping is negative.
C11_GainOrdering ==
  gains # <<>> =>
    LET g(k) == DictGet(gains, k)
        v == valuation
    IN  /\ g("STIFFNESS_BXI50") = Q(v.a50 * v.w * v.w, 1)
        /\ g("STIFFNESS_BXI70") = Q(v.a70 * v.w * v.w, 1)
        /\ g("STIFFNESS_BXI85") = Q(v.a85 * v.w * v.w, 1)
        /\ g("DAMPING_BXI50") = Q(2 * 2 * v.a50 * v.w, 1)
        /\ g("DAMPING_BXI70") = Q(2 * 2 * v.a70 * v.w, 1)
        /\ g("DAMPING_BXI85") = Q(2 * 2 * v.a85 * v.w, 1)
        /\ DAMPING_RATIO = Q(2, 1)
        /\ (v.a50 < v.a70 /\ v.a70 < v.a85) =>
             /\ Less(g("STIFFNESS_BXI50"), g("STIFFNESS_BXI70"))
             /\ Less(g("STIFFNESS_BXI70"), g("STIFFNESS_BXI85"))
             /\ Less(g("DAMPING_BXI50"), g("DAMPING_BXI70"))
             /\ Less(g("DAMPING_BXI70"), g("DAMPING_BXI85"))
        /\ \A i \in DOMAIN gains : gains[i].value.n >= 0

C11_Witness ==
  /\ Len(gains) = 6
  /\ valuation.a50 < valuation.a70
  /\ valuation.a70 < valuation.a85
  /\ valuation.w = 2
  /\ Less(DictGet(gains, "STIFFNESS_BXI70"), DictGet(gains, "STIFFNESS_BXI85"))
  /\ Less(DictGet(gains, "DAMPING_BXI50"), DictGet(gains, "DAMPING_BXI70"))

\* The armature, stiffness and damping of the three actuator classes.
ClassBXI50 ==
  [armature |-> ACTUATOR_BXI50.reflected_inertia,
   stiffness |-> STIFFNESS_BXI50, damping |-> DAMPING_BXI50]
ClassBXI70 ==
  [armature |-> ACTUATOR_BXI70.reflected_inertia,
   stiffness |-> STIFFNESS_BXI70, damping |-> DAMPING_BXI70]
ClassBXI85 ==
  [armature |-> ACTUATOR_BXI85.reflected_inertia,
   stiffness |-> STIFFNESS_BXI85, damping |-> DAMPING_BXI85]
Classes == {ClassBXI50, ClassBXI70, ClassBXI85}

\* Binding b is class c scaled by m: armature, stiffness and damping are m
\* times the class's, and so stiffness / armature and damping / armature are
\* the class's.
ScaledBy(b, c, m) ==
  /\ b.armature = Mul(c.armature, Q(m, 1))
  /\ b.stiffness = Mul(c.stiffness, Q(m, 1))
  /\ b.damping = Mul(c.damping, Q(m, 1))
  /\ Div(b.stiffness, b.armature) = Div(c.stiffness, c.armature)
  /\ Div(b.damping, b.armature) = Div(c.damping, c.armature)

\* The bindings of the list in use that target a linkage joint, by name or
\* by the group's pattern.
Targeting(part, axis) ==
  {k \in DOMAIN actuators :
     Range(actuators[k].target_names_expr)
       \cap {PartName(part, axis), AnySide(part, axis),
              SideName(w_l, part, axis), SideName(w_r, part, axis)} # {}}

IsELF3Groups ==
  joints = joint_name_idx /\ actuators = ELF3_ARTICULATION.actuators

\* C13: the seven group bindings of ELF3_ARTICULATION (BXI50, BXI70, BXI85,
\* WAIST_Y, WAIST_X, ANKLE_Y, ANKLE_X, in that order), resolved against the
\* 29 ELF3 joint names with full-string anchored patterns, match every joint
\* by exactly one group and give each joint the stiffness, damping, effort
\* limit and armature of the binding of ELF3_ARTICULATION_NEW that names it.
C13_GroupsEquivalent ==
  (IsELF3Groups /\ pc \in {"resolved", "resolve_error"}) =>
    /\ pc = "resolved"
    /\ Len(actuators) = 7
    /\ Len(joints) = 29
    /\ Len(ELF3_ARTICULATION_NEW.actuators) = 29
    /\ \A i \in DOMAIN joints :
         LET b == ELF3_ARTICULATION_NEW.actuators[i]
         IN  /\ Cardinality(Matching(joints[i])) = 1
             /\ b.target_names_expr = << joints[i] >>
             /\ table[i].key = joints[i]
             /\ table[i].entry = Some(Params(b))
    /\ table = Resolve(joint_name_idx, ELF3_ARTICULATION_NEW.actuators).table

C13_Witness ==
  /\ IsELF3Groups
  /\ pc = "resolved"
  /\ Len(table) = 29
  /\ table[6].key = SideName(w_l, w_hip, w_z)
  /\ table[6].entry = Some(Params(ELF3_ACTUATOR_BXI70))
  /\ Matching(SideName(w_l, w_hip, w_z)) = {2}
====
